---- MODULE Spec2Model ----
(***************************************************************************)
(* Model of the weewx Meteotemplate uploader (bin/user/meteotemplate.py):  *)
(* the Meteotemplate service (constructor and the two event handlers) and  *)
(* the MeteotemplateThread worker (process_record, get_url, _fmt,          *)
(* check_response, the default field map).                                 *)
(*                                                                         *)
(* Numbers are fixed point, in thousandths: 32.5 is 32500.  A Python value *)
(* is a tuple: None is <<>>, the number n is <<n>>.  A record (a Python    *)
(* dict) is a function from the field names it holds to such values.       *)
(*                                                                         *)
(* The base class weewx.restx.RESTThread (run_loop, get_record,            *)
(* post_with_retries) and weewx.units.to_std_system are not part of the    *)
(* extension; they are modelled after weewx 3.5, the release the module    *)
(* requires (REQUIRED_WEEWX), at the places the extension calls them.      *)
(***************************************************************************)
EXTENDS Integers, Sequences, FiniteSets, TLC

VARIABLES cfg, svc, exc, has_queue, queue, thread, tstate, stop_cause,
          bound, steps, http, last,
          u_self, u_rec, u_calls, u_post

vars == <<cfg, svc, exc, has_queue, queue, thread, tstate, stop_cause,
          bound, steps, http, last, u_self, u_rec, u_calls, u_post>>

svc_vars == <<cfg, svc, exc, has_queue, queue, thread, tstate, stop_cause,
              bound, steps, http, last>>

unit_vars == <<u_self, u_rec, u_calls, u_post>>

(***************************************************************************)
(* Bounds of the model.                                                    *)
(***************************************************************************)
\* longest delivery queue the handlers are allowed to build
MaxQueue == 2
\* largest number of HTTP attempts counted
MaxHttp == 4
\* largest max_tries a directly driven worker is built with
MaxTries == 3
\* number of get_url calls made on one record object
MaxCalls == 2

(***************************************************************************)
(* Python values.                                                          *)
(***************************************************************************)
None == <<>>

Num(n) == <<n>>

IsNum(x) == Len(x) = 1

\* weewx.US and weewx.METRIC, the unit-system tags of a record
US == 1

METRIC == 16

\* weewx.__version__ as it appears in the SW parameter
SoftwareType == "weewx-3.5.0"

(***************************************************************************)
(* MeteotemplateThread.create_default_field_map: external key ->           *)
(* (internal field, decimal places).                                       *)
(***************************************************************************)
StaticFieldMap ==
    [k \in {"T", "H", "P", "SLP", "W", "G", "B", "RR", "R", "S", "UV",
            "TIN", "HIN", "SN", "SD", "L", "NL"} |->
        CASE k = "T" -> <<"outTemp", 2>>
          [] k = "H" -> <<"outHumidity", 1>>
          [] k = "P" -> <<"pressure", 3>>
          [] k = "SLP" -> <<"barometer", 3>>
          [] k = "W" -> <<"windSpeed", 2>>
          [] k = "G" -> <<"windGust", 2>>
          [] k = "B" -> <<"windDir", 0>>
          [] k = "RR" -> <<"rainRate", 3>>
          [] k = "R" -> <<"dayRain", 3>>
          [] k = "S" -> <<"radiation", 3>>
          [] k = "UV" -> <<"UV", 0>>
          [] k = "TIN" -> <<"inTemp", 2>>
          [] k = "HIN" -> <<"inHumidity", 1>>
          [] k = "SN" -> <<"daySnow", 3>>
          [] k = "SD" -> <<"snowDepth", 3>>
          [] k = "L" -> <<"lightning", 0>>
          [] OTHER -> <<"noise", 2>>]

\* the entries the loop over range(8) adds: <<key prefix, field prefix, places>>
ChannelEntries ==
    {<<"T", "extraTemp", 2>>, <<"H", "extraHumid", 1>>,
     <<"TS", "soilTemp", 2>>, <<"TSD", "soilTempDepth", 2>>,
     <<"LW", "leafWet", 1>>, <<"LT", "leafTemp", 2>>,
     <<"SM", "soilMoist", 1>>, <<"CO2_", "co2_", 3>>,
     <<"NO2_", "no2_", 3>>, <<"CO_", "co_", 3>>,
     <<"SO2_", "so2_", 3>>, <<"O3_", "o3_", 3>>, <<"pp", "pp", 3>>}

ChannelFieldMap ==
    LET keys == {e[1] \o ToString(i) : e \in ChannelEntries, i \in 0..7}
        entry(k) == CHOOSE p \in ChannelEntries \X (0..7) :
                        p[1][1] \o ToString(p[2]) = k
    IN [k \in keys |->
            <<entry(k)[1][2] \o ToString(entry(k)[2]), entry(k)[1][3]>>]

BatteryFieldMap ==
    [k \in {"TXBAT", "WBAT", "RBAT", "TBAT", "TINBAT"} |->
        CASE k = "TXBAT" -> <<"txBatteryStatus", 0>>
          [] k = "WBAT" -> <<"windBatteryStatus", 0>>
          [] k = "RBAT" -> <<"rainBatteryStatus", 0>>
          [] k = "TBAT" -> <<"outTempBatteryStatus", 0>>
          [] OTHER -> <<"inTempBatteryStatus", 0>>]

create_default_field_map == StaticFieldMap @@ ChannelFieldMap @@ BatteryFieldMap

(***************************************************************************)
(* Observation records.                                                    *)
(***************************************************************************)
Ext(R, f, V) == R \cup {r @@ (f :> v) : r \in R, v \in V}

BaseRecords ==
    {("dateTime" :> Num(1477000000)) @@ ("usUnits" :> Num(u)) : u \in {US, METRIC}}

\* every record the mapping is applied to: outTemp and dayRain absent, None or
\* a number, rainRate absent or a number, and rain, a field no entry maps.
Records ==
    Ext(Ext(Ext(Ext(BaseRecords, "outTemp", {None, Num(50000)}),
                "dayRain", {None, Num(100)}),
            "rainRate", {Num(200)}),
        "rain", {Num(10)})

\* the records the capture thread hands to the service
EventRecords ==
    {r \in Records :
        \/ DOMAIN r = {"dateTime", "usUnits"} /\ r["usUnits"] = Num(US)
        \/ DOMAIN r = {"dateTime", "usUnits", "rain"} /\ r["usUnits"] = Num(METRIC)
        \/ /\ DOMAIN r = {"dateTime", "usUnits", "outTemp", "dayRain"}
           /\ \/ r["usUnits"] = Num(US) /\ r["outTemp"] # None /\ r["dayRain"] = None
              \/ r["usUnits"] = Num(METRIC) /\ r["outTemp"] = None /\ r["dayRain"] # None}

(***************************************************************************)
(* weewx.units.to_std_system(record, unit_system), as get_url calls it: a  *)
(* record already in the target system is returned as it is (the same      *)
(* object); any other is converted into a new dict.                        *)
(***************************************************************************)
TemperatureFields == {"outTemp", "inTemp"}

RainFields == {"rain", "dayRain", "rainRate"}

ConvertToMetric(f, v) ==
    IF ~IsNum(v) THEN v
    ELSE IF f = "usUnits" THEN Num(METRIC)
    ELSE IF f \in TemperatureFields THEN Num(((v[1] - 32000) * 5) \div 9)
    ELSE IF f \in RainFields THEN Num((v[1] * 254) \div 100)
    ELSE v

to_std_system(record, unit_system) ==
    IF record["usUnits"] = Num(unit_system)
    THEN [same |-> TRUE, rec |-> record]
    ELSE [same |-> FALSE,
          rec |-> [f \in DOMAIN record |-> ConvertToMetric(f, record[f])]]

(***************************************************************************)
(* MeteotemplateThread._fmt: "%.<places>f" % x, or x itself when x is not  *)
(* a number.  The formatted string is <<digits, places>>: x rounded to     *)
(* `places` decimals, in units of 10^-places.                              *)
(***************************************************************************)
Pow10(n) == IF n = 0 THEN 1 ELSE IF n = 1 THEN 10 ELSE IF n = 2 THEN 100 ELSE 1000

fmt(x, places) ==
    IF IsNum(x)
    THEN LET d == Pow10(3 - places)
         IN <<(2 * x[1] + d) \div (2 * d), places>>
    ELSE x

(***************************************************************************)
(* MeteotemplateThread.__init__.  field_map is assigned the method         *)
(* create_default_field_map itself: the assignment does not call it.       *)
(***************************************************************************)
to_bool(x) == x \in {"true", "True"}

thread_field_map_called == [kind |-> "dict", fm |-> create_default_field_map]

thread_field_map == [kind |-> "function", fm |-> create_default_field_map]

ThreadInit(password, server_url, skip_upload, manager_dict, max_tries) ==
    [server_url |-> server_url,
     password |-> password,
     skip_upload |-> to_bool(skip_upload),
     field_map |-> thread_field_map,
     manager_dict |-> manager_dict,
     max_tries |-> max_tries]

(***************************************************************************)
(* MeteotemplateThread.get_url.  The result is the exception raised ("" if *)
(* none), the URL returned (<<>> if none) and the caller's record object   *)
(* as the call leaves it.                                                  *)
(***************************************************************************)
Rescale(rec, f) ==
    IF f \in DOMAIN rec /\ rec[f] # None
    THEN [rec EXCEPT ![f] = Num(@[1] * 10)]
    ELSE rec

MappedKeys(fm, rec) ==
    {k \in DOMAIN fm : fm[k][1] \in DOMAIN rec /\ rec[fm[k][1]] # None}

get_url(self, record) ==
    LET std == to_std_system(record, METRIC)
        r1 == Rescale(std.rec, "dayRain")
        r2 == Rescale(r1, "rainRate")
        after == IF std.same THEN r2 ELSE record
        parts0 == ("PASS" :> self.password) @@ ("U" :> r2["dateTime"])
                  @@ ("SW" :> SoftwareType)
        fm == self.field_map.fm
        parts == parts0 @@
                 [k \in MappedKeys(fm, r2) |-> fmt(r2[fm[k][1]], fm[k][2])]
    IN IF self.field_map.kind # "dict"
       THEN [exc |-> "TypeError", url |-> <<>>, rec |-> after]
       ELSE [exc |-> "",
             url |-> <<[base |-> self.server_url, query |-> parts]>>,
             rec |-> after]

(***************************************************************************)
(* MeteotemplateThread.check_response and the base class's                 *)
(* post_with_retries.  A response is its status code and body; code 0      *)
(* stands for urlopen raising URLError or socket.error (a timeout, a       *)
(* refused connection).                                                    *)
(***************************************************************************)
Responses ==
    {[code |-> 200, body |-> "Success"], [code |-> 200, body |-> "Error"],
     [code |-> 500, body |-> ""], [code |-> 0, body |-> ""]}

check_response(response) ==
    IF response.body # "Success" THEN "FailedPost" ELSE ""

RECURSIVE Attempt(_, _, _)
Attempt(self, resps, i) ==
    IF i > self.max_tries
    THEN [exc |-> "FailedPost", attempts |-> self.max_tries]
    ELSE IF resps[i].code >= 200 /\ resps[i].code <= 299
    THEN [exc |-> check_response(resps[i]), attempts |-> i]
    ELSE Attempt(self, resps, i + 1)

post_with_retries(self, resps) == Attempt(self, resps, 1)

(***************************************************************************)
(* The base class's get_record: a copy of the record, with dayRain taken   *)
(* from the archive when the record has none.                              *)
(***************************************************************************)
ArchiveDayRain == {Num(300)}

get_record(record, archive_rain) ==
    IF "dayRain" \in DOMAIN record THEN record
    ELSE record @@ ("dayRain" :> archive_rain)

(***************************************************************************)
(* MeteotemplateThread.process_record.  dbm is whether run() opened the    *)
(* archive (manager_dict was given).                                       *)
(***************************************************************************)
process_record(self, record, dbm, archive_rain, resps) ==
    LET rec == IF dbm THEN get_record(record, archive_rain) ELSE record
        u == get_url(self, rec)
        after == IF dbm THEN record ELSE u.rec
    IN IF u.exc # ""
       THEN [exc |-> u.exc, attempts |-> 0, rec |-> after]
       ELSE IF self.skip_upload
       THEN [exc |-> "AbortedPost", attempts |-> 0, rec |-> after]
       ELSE LET p == post_with_retries(self, resps)
            IN [exc |-> p.exc, attempts |-> p.attempts, rec |-> after]

(***************************************************************************)
(* The configuration the host hands to Meteotemplate.__init__: the options *)
(* of [StdRESTful][Meteotemplate] (Absent when the file does not set one), *)
(* whether wx_binding names a known database binding, and whether the base *)
(* class's constructor finds its precondition violated.  An option value   *)
(* with a comma is read as a list unless it is quoted, any other as a      *)
(* string.                                                                 *)
(***************************************************************************)
Absent == "<absent>"

DEFAULT_URL == "http://localhost/template/api.php"

BindingValues ==
    {[list |-> FALSE, text |-> t] :
        t \in {Absent, "archive", "loop", "Loop", "loop,archive", "none"}}
    \cup {[list |-> TRUE, text |-> "loop, archive"]}

Configs ==
    [password : {Absent, "abc123"},
     server_url : {Absent, "http://example.org/api.php"},
     binding : BindingValues,
     skip_upload : {Absent, "true"},
     wx_binding : BOOLEAN,
     precondition_violated : BOOLEAN]

\* str.lower() on the binding texts of the model
lower(s) == IF s = "Loop" THEN "loop" ELSE s

\* weeutil.list_as_string: a list is joined, a string is returned as it is
list_as_string(v) == v.text

\* the Python test  word in text  on the binding texts of the model
Contains(word, text) ==
    \/ text = word
    \/ text \in {"loop,archive", "loop, archive"} /\ word \in {"loop", "archive"}

DefaultMaxTries == 3

(***************************************************************************)
(* Meteotemplate.__init__, as the state it leaves behind: how it ended     *)
(* (svc, with the exception that reached the host), the queue, the worker, *)
(* the bound events, and its side effects in the order it made them.       *)
(***************************************************************************)
NotBuilt(how, e, q, st) ==
    [svc |-> how, exc |-> e, has_queue |-> q, thread |-> <<>>,
     started |-> FALSE, bound |-> {}, steps |-> st]

PasswordMissingSkipped(c) == FALSE

PasswordMissing(c) == c.password = Absent

BindAfterStartReversed(binding) ==
    (IF Contains("loop", binding) THEN <<"bind NEW_LOOP_PACKET">> ELSE <<>>)
    \o (IF Contains("archive", binding) THEN <<"bind NEW_ARCHIVE_RECORD">> ELSE <<>>)
    \o <<"thread.start">>

BindAfterStart(binding) ==
    <<"thread.start">>
    \o (IF Contains("loop", binding) THEN <<"bind NEW_LOOP_PACKET">> ELSE <<>>)
    \o (IF Contains("archive", binding) THEN <<"bind NEW_ARCHIVE_RECORD">> ELSE <<>>)

BoundEvents(st) ==
    {e \in {"NEW_LOOP_PACKET", "NEW_ARCHIVE_RECORD"} :
        \E i \in 1..Len(st) : st[i] = "bind " \o e}

Construct(c) ==
    LET raw == IF c.binding.text = Absent
               THEN [list |-> FALSE, text |-> "archive"]
               ELSE c.binding
        binding == list_as_string([raw EXCEPT !.text = lower(raw.text)])
        skip == IF c.skip_upload = Absent THEN "False" ELSE c.skip_upload
        self == ThreadInit(c.password, c.server_url, skip, c.wx_binding,
                           DefaultMaxTries)
        st == <<"queue", "thread.__init__">> \o BindAfterStart(binding)
    IN IF PasswordMissing(c)
       THEN NotBuilt("disabled", "", FALSE, <<>>)
       ELSE IF raw.list
       THEN NotBuilt("raised", "AttributeError", FALSE, <<>>)
       ELSE IF c.server_url = Absent
       THEN NotBuilt("raised", "TypeError", TRUE, <<"queue">>)
       ELSE IF c.precondition_violated
       THEN NotBuilt("disabled", "", TRUE, <<"queue">>)
       ELSE [svc |-> "enabled", exc |-> "", has_queue |-> TRUE,
             thread |-> <<self>>, started |-> TRUE,
             bound |-> BoundEvents(st), steps |-> st]

(***************************************************************************)
(* Meteotemplate.handle_new_loop and handle_new_archive: Queue.put on an   *)
(* unbounded queue.                                                        *)
(***************************************************************************)
handle_new_loop_twice(q, packet) == Append(Append(q, packet), packet)

handle_new_loop(q, packet) == Append(q, packet)

handle_new_archive(q, record) == Append(q, record)

Sentinel == [sentinel |-> TRUE]

IsSentinel(x) == "sentinel" \in DOMAIN x

NoRecord == [none |-> TRUE]

(***************************************************************************)
(* The service in its host.                                                *)
(***************************************************************************)
Init ==
    /\ cfg \in Configs
    /\ svc = "unbuilt"
    /\ exc = ""
    /\ has_queue = FALSE
    /\ queue = <<>>
    /\ thread = <<>>
    /\ tstate = "none"
    /\ stop_cause = ""
    /\ bound = {}
    /\ steps = <<>>
    /\ http = 0
    /\ last = [op |-> "none", rec |-> NoRecord, exc |-> "", attempts |-> 0]
    /\ u_self = ThreadInit("", "", "False", FALSE, 1)
    /\ u_rec = NoRecord
    /\ u_calls = <<>>
    /\ u_post = <<>>

New ==
    /\ svc = "unbuilt"
    /\ LET r == Construct(cfg)
       IN /\ svc' = r.svc
          /\ exc' = r.exc
          /\ has_queue' = r.has_queue
          /\ thread' = r.thread
          /\ tstate' = IF r.started THEN "running" ELSE "none"
          /\ bound' = r.bound
          /\ steps' = r.steps
    /\ last' = [op |-> "__init__", rec |-> NoRecord, exc |-> exc', attempts |-> 0]
    /\ UNCHANGED <<cfg, queue, stop_cause, http, unit_vars>>

NewLoopPacket ==
    /\ "NEW_LOOP_PACKET" \in bound
    /\ Len(queue) < MaxQueue
    /\ \E packet \in EventRecords :
          /\ queue' = handle_new_loop(queue, packet)
          /\ last' = [op |-> "handle_new_loop", rec |-> packet, exc |-> "",
                      attempts |-> 0]
    /\ UNCHANGED <<cfg, svc, exc, has_queue, thread, tstate, stop_cause,
                   bound, steps, http, unit_vars>>

NewArchiveRecord ==
    /\ "NEW_ARCHIVE_RECORD" \in bound
    /\ Len(queue) < MaxQueue
    /\ \E record \in EventRecords :
          /\ queue' = handle_new_archive(queue, record)
          /\ last' = [op |-> "handle_new_archive", rec |-> record, exc |-> "",
                      attempts |-> 0]
    /\ UNCHANGED <<cfg, svc, exc, has_queue, thread, tstate, stop_cause,
                   bound, steps, http, unit_vars>>

\* the host's shutdown: the sentinel None is put on the queue
ShutDown ==
    /\ svc = "enabled"
    /\ \A i \in 1..Len(queue) : ~IsSentinel(queue[i])
    /\ queue' = Append(queue, Sentinel)
    /\ last' = [op |-> "shutDown", rec |-> NoRecord, exc |-> "", attempts |-> 0]
    /\ UNCHANGED <<cfg, svc, exc, has_queue, thread, tstate, stop_cause,
                   bound, steps, http, unit_vars>>

(***************************************************************************)
(* One turn of the base class's run_loop in the worker thread: take the    *)
(* head of the queue; None ends the loop; any other record goes to         *)
(* process_record.  AbortedPost and FailedPost are logged and the loop     *)
(* goes on; any other exception is logged and ends the thread.             *)
(***************************************************************************)
LoopContinues(e) == e \in {"", "AbortedPost", "FailedPost"}

RunLoop ==
    /\ tstate = "running"
    /\ queue # <<>>
    /\ http < MaxHttp
    /\ queue' = Tail(queue)
    /\ IF IsSentinel(Head(queue))
       THEN /\ tstate' = "stopped"
            /\ stop_cause' = "sentinel"
            /\ http' = http
            /\ last' = [op |-> "run_loop", rec |-> NoRecord, exc |-> "",
                        attempts |-> 0]
       ELSE \E archive_rain \in ArchiveDayRain,
               resps \in [1..thread[1].max_tries -> Responses] :
               LET r == process_record(thread[1], Head(queue),
                                       thread[1].manager_dict, archive_rain, resps)
               IN /\ tstate' = IF LoopContinues(r.exc) THEN "running" ELSE "stopped"
                  /\ stop_cause' = IF LoopContinues(r.exc) THEN "" ELSE "exception"
                  /\ http' = http + r.attempts
                  /\ last' = [op |-> "process_record", rec |-> Head(queue),
                              exc |-> r.exc, attempts |-> r.attempts]
    /\ UNCHANGED <<cfg, svc, exc, has_queue, thread, bound, steps, unit_vars>>

Next == New \/ NewLoopPacket \/ NewArchiveRecord \/ ShutDown \/ RunLoop

Spec == Init /\ [][Next]_vars

(***************************************************************************)
(* The worker driven directly, as the module's own test block does: a      *)
(* MeteotemplateThread is built and its methods are called on a record.    *)
(***************************************************************************)
InitThread ==
    /\ cfg = [password |-> "abc123", server_url |-> DEFAULT_URL,
              binding |-> [list |-> FALSE, text |-> Absent],
              skip_upload |-> Absent, wx_binding |-> FALSE,
              precondition_violated |-> FALSE]
    /\ svc = "unbuilt"
    /\ exc = ""
    /\ has_queue = FALSE
    /\ queue = <<>>
    /\ thread = <<>>
    /\ tstate = "none"
    /\ stop_cause = ""
    /\ bound = {}
    /\ steps = <<>>
    /\ http = 0
    /\ last = [op |-> "none", rec |-> NoRecord, exc |-> "", attempts |-> 0]
    /\ \E skip \in {"False", "true"}, tries \in 1..MaxTries :
          u_self = ThreadInit("abc123", DEFAULT_URL, skip, FALSE, tries)
    /\ u_rec \in Records
    /\ u_calls = <<>>
    /\ u_post = <<>>

\* url = t.get_url(record), on the record object the caller holds
CallGetUrl ==
    /\ Len(u_calls) < MaxCalls
    /\ LET r == get_url(u_self, u_rec)
       IN /\ u_calls' = Append(u_calls, [arg |-> u_rec, exc |-> r.exc, url |-> r.url])
          /\ u_rec' = r.rec
    /\ UNCHANGED <<svc_vars, u_self, u_post>>

\* t.post_with_retries(request), the server answering attempt i with resps[i]
CallPostWithRetries ==
    /\ u_post = <<>>
    /\ \E resps \in [1..u_self.max_tries -> Responses] :
          LET p == post_with_retries(u_self, resps)
          IN u_post' = <<[resps |-> resps, exc |-> p.exc, attempts |-> p.attempts]>>
    /\ UNCHANGED <<svc_vars, u_self, u_rec, u_calls>>

NextThread == CallGetUrl \/ CallPostWithRetries

SpecThread == InitThread /\ [][NextThread]_vars

(***************************************************************************)
(* Properties.                                                             *)
(***************************************************************************)
\* the field-map keys whose internal field the record holds with a value
\* other than None
DataKeys(rec) ==
    {k \in DOMAIN create_default_field_map :
        /\ create_default_field_map[k][1] \in DOMAIN rec
        /\ rec[create_default_field_map[k][1]] # None}

\* C1: every get_url call on a record with a dateTime returns a URL, and the
\* keys of its query are exactly PASS, U, SW and the field-map keys whose
\* field the record holds with a non-None value.
C1_QueryKeysExact ==
    \A i \in 1..Len(u_calls) :
        /\ u_calls[i].exc = ""
        /\ DOMAIN u_calls[i].url[1].query
               = {"PASS", "U", "SW"} \cup DataKeys(u_calls[i].arg)

C3_BadBodyIsRetried ==
    u_post # <<>> =>
        /\ \A n \in 1..(u_self.max_tries - 1) :
              (/\ n <= u_post[1].attempts
               /\ u_post[1].resps[n].code = 200
               /\ u_post[1].resps[n].body # "Success")
                  => u_post[1].attempts > n
        /\ u_post[1].exc = "FailedPost" => u_post[1].attempts = u_self.max_tries

\* C4: the worker stops only by taking the shutdown sentinel from the queue;
\* a record whose processing raises an unexpected exception leaves it running.
C4_StopsOnlyOnSentinel ==
    /\ tstate = "stopped" => stop_cause = "sentinel"
    /\ (last.op = "process_record" /\ ~LoopContinues(last.exc)) => tstate = "running"

\* C5: without a password the constructor returns normally and leaves the
\* service disabled: no queue, no worker, no bound event, nothing enqueued
\* or uploaded.
C5_NoPasswordDisabled ==
    (cfg.password = Absent /\ svc # "unbuilt") =>
        /\ svc = "disabled"
        /\ exc = ""
        /\ ~has_queue
        /\ thread = <<>>
        /\ tstate = "none"
        /\ bound = {}
        /\ steps = <<>>
        /\ queue = <<>>
        /\ http = 0

C5_Witness == cfg.password = Absent /\ svc = "disabled" /\ last.op = "__init__"

\* C6: with a password and no server_url the constructor completes without
\* raising and the worker it starts uploads to DEFAULT_URL.
C6_DefaultUrlUsed ==
    (/\ svc # "unbuilt"
     /\ cfg.password # Absent
     /\ cfg.server_url = Absent
     /\ ~cfg.binding.list
     /\ ~cfg.precondition_violated)
        => /\ svc = "enabled"
           /\ exc = ""
           /\ tstate # "none"
           /\ thread[1].server_url = DEFAULT_URL

C8_DryRunAborts ==
    (last.op = "process_record" /\ thread[1].skip_upload)
        => (last.exc = "AbortedPost" /\ last.attempts = 0 /\ http = 0)

\* C9: get_url leaves the dayRain and rainRate of the record it is given as
\* they were, and two calls on the same record object return the same URL.
C9_GetUrlIdempotent ==
    /\ Len(u_calls) >= 1 =>
          \A f \in {"dayRain", "rainRate"} \cap DOMAIN u_rec :
              u_rec[f] = u_calls[1].arg[f]
    /\ Len(u_calls) >= 2 =>
          /\ u_calls[1].exc = ""
          /\ u_calls[2].exc = ""
          /\ u_calls[1].url = u_calls[2].url

\* what the binding option of a configuration names, and the bind steps
NamesLoop(c) == c.binding.text \in {"loop", "Loop", "loop,archive"}

NamesArchive(c) == c.binding.text \in {"archive", "loop,archive", Absent}

IsBind(st) == st \in {"bind NEW_LOOP_PACKET", "bind NEW_ARCHIVE_RECORD"}

\* C10: in an enabled service the worker thread was started before any
\* event was bound, NEW_LOOP_PACKET is bound iff the binding names loop,
\* NEW_ARCHIVE_RECORD iff it names archive or there is no binding option;
\* when the worker's constructor raises ViolatedPrecondition nothing is
\* bound and no thread is started.
C10_StartThenBind ==
    /\ svc = "enabled" =>
          /\ \E i \in 1..Len(steps) :
                /\ steps[i] = "thread.start"
                /\ \A j \in 1..Len(steps) : IsBind(steps[j]) => i < j
          /\ tstate # "none"
          /\ ("NEW_LOOP_PACKET" \in bound) <=> NamesLoop(cfg)
          /\ ("NEW_ARCHIVE_RECORD" \in bound) <=> NamesArchive(cfg)
    /\ (/\ svc # "unbuilt"
        /\ cfg.password # Absent
        /\ cfg.server_url # Absent
        /\ ~cfg.binding.list
        /\ cfg.precondition_violated)
          => /\ svc = "disabled"
             /\ bound = {}
             /\ tstate = "none"
             /\ \A i \in 1..Len(steps) : steps[i] # "thread.start"

C10_Witness ==
    /\ svc = "enabled"
    /\ bound = {"NEW_LOOP_PACKET", "NEW_ARCHIVE_RECORD"}
    /\ steps[Len(steps)] = "bind NEW_ARCHIVE_RECORD"

====
